---- MODULE Spec2Model ----
(***************************************************************************)
(* Model of the SAGE object store gateway (storage_handler.go).            *)
(*                                                                         *)
(* The source file holds two revisions of the handler:                     *)
(*   revision "A" (lines 1-185)   streams the object body to the client,   *)
(*   revision "B" (lines 187-383) redirects to a presigned URL.            *)
(* Both are modelled; the variable `revision` says which one is built.     *)
(*                                                                         *)
(* Strings that the code inspects (paths, segments, keys) are sequences of *)
(* one-character strings, so that strings.SplitN, strconv.ParseInt and     *)
(* path.Join are computed as Go computes them.                             *)
(***************************************************************************)
EXTENDS Integers, Sequences, FiniteSets, TLC

----------------------------------------------------------------------------
(* Go library functions used by the handler                                *)

Nil == "nil"

\* index of the first occurrence of character c in s, 0 when absent
IndexOf(s, c) ==
    IF \E i \in 1..Len(s) : s[i] = c
    THEN CHOOSE i \in 1..Len(s) : s[i] = c /\ \A k \in 1..(i-1) : s[k] # c
    ELSE 0

\* strings.SplitN(s, sep, n) for a one-character sep and n > 0:
\* at most n substrings, the last one being the unsplit remainder
RECURSIVE SplitN(_, _, _)
SplitN(s, sep, n) ==
    LET i == IndexOf(s, sep) IN
    IF n = 1 \/ i = 0
    THEN << s >>
    ELSE << SubSeq(s, 1, i-1) >> \o SplitN(SubSeq(s, i+1, Len(s)), sep, n-1)

\* strings.Split(s, "/"): every substring
RECURSIVE Split(_, _)
Split(s, sep) ==
    LET i == IndexOf(s, sep) IN
    IF i = 0
    THEN << s >>
    ELSE << SubSeq(s, 1, i-1) >> \o Split(SubSeq(s, i+1, Len(s)), sep)

\* strings.Join(elems, "/")
RECURSIVE JoinSlash(_)
JoinSlash(elems) ==
    IF Len(elems) = 0 THEN << >>
    ELSE IF Len(elems) = 1 THEN elems[1]
    ELSE elems[1] \o << "/" >> \o JoinSlash(Tail(elems))

\* strings.Contains(s, sub)
Contains(s, sub) ==
    \E i \in 0..(Len(s) - Len(sub)) : SubSeq(s, i+1, i+Len(sub)) = sub

Digits == {"0", "1", "2", "3", "4", "5", "6", "7", "8", "9"}

DigitVal(c) ==
    CASE c = "0" -> 0 [] c = "1" -> 1 [] c = "2" -> 2 [] c = "3" -> 3
      [] c = "4" -> 4 [] c = "5" -> 5 [] c = "6" -> 6 [] c = "7" -> 7
      [] c = "8" -> 8 [] c = "9" -> 9

RECURSIVE StripZeros(_)
StripZeros(d) ==
    IF Len(d) > 1 /\ Head(d) = "0" THEN StripZeros(Tail(d)) ELSE d

\* the decimal digits of 2^63 - 1 and of 2^63, the int64 limits of ParseInt
MaxInt64Digits ==
    << "9","2","2","3","3","7","2","0","3","6","8","5","4","7","7","5","8","0","7" >>
MinInt64Digits ==
    << "9","2","2","3","3","7","2","0","3","6","8","5","4","7","7","5","8","0","8" >>

\* a <= b for two digit strings of the same length
RECURSIVE DigitsLeq(_, _)
DigitsLeq(a, b) ==
    IF Len(a) = 0 THEN TRUE
    ELSE IF DigitVal(Head(a)) < DigitVal(Head(b)) THEN TRUE
    ELSE IF DigitVal(Head(a)) > DigitVal(Head(b)) THEN FALSE
    ELSE DigitsLeq(Tail(a), Tail(b))

\* magnitude d (no leading zeros) fits the int64 range for the given sign
InInt64Range(d, neg) ==
    LET lim == IF neg THEN MinInt64Digits ELSE MaxInt64Digits IN
    \/ Len(d) < Len(lim)
    \/ Len(d) = Len(lim) /\ DigitsLeq(d, lim)

RECURSIVE DigitsValue(_, _)
DigitsValue(d, acc) ==
    IF Len(d) = 0 THEN acc ELSE DigitsValue(Tail(d), 10 * acc + DigitVal(Head(d)))

\* strconv.ParseInt(s, 10, 64): optional sign, then one or more digits,
\* value within int64; anything else is an error
ParseInt(s) ==
    LET signed == Len(s) > 0 /\ s[1] \in {"+", "-"}
        neg    == Len(s) > 0 /\ s[1] = "-"
        d      == IF signed THEN Tail(s) ELSE s
    IN  IF Len(d) = 0 \/ \E i \in 1..Len(d) : d[i] \notin Digits
        THEN [ok |-> FALSE, val |-> 0]
        ELSE IF ~InInt64Range(StripZeros(d), neg)
        THEN [ok |-> FALSE, val |-> 0]
        ELSE [ok |-> TRUE,
              val |-> IF neg THEN 0 - DigitsValue(d, 0) ELSE DigitsValue(d, 0)]

\* path.Clean applied to the components of a path: drop "" and ".",
\* let ".." remove the component before it, keep a leading ".." of a
\* relative path and drop it on a rooted one
RECURSIVE CleanParts(_, _, _)
CleanParts(parts, stack, rooted) ==
    IF Len(parts) = 0 THEN stack
    ELSE LET c == Head(parts) IN
         IF c = << >> \/ c = << "." >>
         THEN CleanParts(Tail(parts), stack, rooted)
         ELSE IF c = << ".", "." >>
         THEN IF Len(stack) > 0 /\ stack[Len(stack)] # << ".", "." >>
              THEN CleanParts(Tail(parts), SubSeq(stack, 1, Len(stack)-1), rooted)
              ELSE IF rooted
                   THEN CleanParts(Tail(parts), stack, rooted)
                   ELSE CleanParts(Tail(parts), Append(stack, c), rooted)
         ELSE CleanParts(Tail(parts), Append(stack, c), rooted)

\* path.Clean(p)
Clean(p) ==
    IF Len(p) = 0 THEN << "." >>
    ELSE LET rooted == p[1] = "/"
             body   == JoinSlash(CleanParts(Split(p, "/"), << >>, rooted))
         IN  IF rooted THEN << "/" >> \o body
             ELSE IF Len(body) = 0 THEN << "." >> ELSE body

\* path.Join(elems...): empty elements are ignored, the rest joined by "/"
\* and the result cleaned; "" when every element is empty
PathJoin(elems) ==
    LET nonEmpty == SelectSeq(elems, LAMBDA e : Len(e) > 0) IN
    IF Len(nonEmpty) = 0 THEN << >> ELSE Clean(JoinSlash(nonEmpty))

----------------------------------------------------------------------------
(* File identity parser and storage key mapper                             *)

NoFile == [JobID |-> << >>, TaskID |-> << >>, NodeID |-> << >>,
           Filename |-> << >>, Timestamp |-> 0]

StorageFile(job, task, node, filename, ts) ==
    [JobID |-> job, TaskID |-> task, NodeID |-> node, Filename |-> filename,
     Timestamp |-> ts]

\* time.Unix(0, nsec): the instant is the nanosecond count itself
parseNanosecondTimestamp(s) ==
    LET n == ParseInt(s) IN
    IF ~n.ok THEN [err |-> "strconv.ParseInt", ts |-> 0]
    ELSE [err |-> Nil, ts |-> n.val]

extractTimestampFromFilename(s) ==
    LET parts == SplitN(s, "-", 2) IN
    IF Len(parts) < 2
    THEN [err |-> "missing dash separator in filename", ts |-> 0]
    ELSE parseNanosecondTimestamp(parts[1])

\* revision A: no check for empty segments
getRequestFileIDA(urlPath) ==
    LET parts == SplitN(urlPath, "/", 4) IN
    IF Len(parts) # 4
    THEN [err |-> "invalid path format", sf |-> NoFile]
    ELSE LET t == extractTimestampFromFilename(parts[4]) IN
         IF t.err # Nil
         THEN [err |-> t.err, sf |-> NoFile]
         ELSE [err |-> Nil,
               sf  |-> StorageFile(parts[1], parts[2], parts[3], parts[4], t.ts)]

\* revision B: empty job, task, node or filename is rejected
getRequestFileIDB(urlPath) ==
    LET parts == SplitN(urlPath, "/", 4) IN
    IF Len(parts) # 4
    THEN [err |-> "invalid path", sf |-> NoFile]
    ELSE IF parts[1] = << >> THEN [err |-> "job must be nonempty", sf |-> NoFile]
    ELSE IF parts[2] = << >> THEN [err |-> "task must be nonempty", sf |-> NoFile]
    ELSE IF parts[3] = << >> THEN [err |-> "node must be nonempty", sf |-> NoFile]
    ELSE IF parts[4] = << >> THEN [err |-> "filename must be nonempty", sf |-> NoFile]
    ELSE LET t == extractTimestampFromFilename(parts[4]) IN
         IF t.err # Nil
         THEN [err |-> "failed to extract timestamp from filename", sf |-> NoFile]
         ELSE [err |-> Nil,
               sf  |-> StorageFile(parts[1], parts[2], parts[3], parts[4], t.ts)]

getRequestFileID(rev, urlPath) ==
    IF rev = "A" THEN getRequestFileIDA(urlPath) ELSE getRequestFileIDB(urlPath)

s3KeyForFileID(root, f) ==
    PathJoin(<< root, f.JobID, f.TaskID, f.NodeID, f.Filename >>)

----------------------------------------------------------------------------
(* Authorization policy engine (TableAuthenticator)                        *)

\* an optional value (a Go pointer): << >> is nil, << v >> is set
None == << >>
Some(v) == << v >>

Node(restricted, commissionDate) ==
    [Restricted |-> restricted, CommissionDate |-> commissionDate]

\* the configuration of the test router, with single-letter names:
\* n commissioned at instant 2, r restricted, u never commissioned
Config1 ==
    [Username |-> "user", Password |-> "secret",
     Nodes |-> [id \in { << "n" >>, << "r" >>, << "u" >> } |->
                  CASE id = << "n" >> -> Node(FALSE, Some(2))
                    [] id = << "r" >> -> Node(TRUE, Some(2))
                    [] id = << "u" >> -> Node(FALSE, None)],
     RestrictedTasksSubstrings |-> << << "s" >> >>]

\* a second configuration that differs from the first in every field
Config2 ==
    [Username |-> "admin", Password |-> "hunter",
     Nodes |-> [id \in { << "n" >>, << "r" >> } |->
                  CASE id = << "n" >> -> Node(FALSE, Some(3))
                    [] id = << "r" >> -> Node(FALSE, Some(1))],
     RestrictedTasksSubstrings |-> << << "t" >> >>]

Configs == { Config1, Config2 }

\* the boundary slip: a file stamped at the commission date is still held
RestrictedInclusive(cfg, f) ==
    \/ \E i \in 1..Len(cfg.RestrictedTasksSubstrings) :
          Contains(f.TaskID, cfg.RestrictedTasksSubstrings[i])
    \/ f.NodeID \notin DOMAIN cfg.Nodes
    \/ /\ f.NodeID \in DOMAIN cfg.Nodes
       /\ \/ cfg.Nodes[f.NodeID].Restricted
          \/ cfg.Nodes[f.NodeID].CommissionDate = None
          \/ /\ cfg.Nodes[f.NodeID].CommissionDate # None
             /\ f.Timestamp <= cfg.Nodes[f.NodeID].CommissionDate[1]

\* the file requires credentials under configuration cfg
Restricted(cfg, f) ==
    \/ \E i \in 1..Len(cfg.RestrictedTasksSubstrings) :
          Contains(f.TaskID, cfg.RestrictedTasksSubstrings[i])
    \/ f.NodeID \notin DOMAIN cfg.Nodes
    \/ /\ f.NodeID \in DOMAIN cfg.Nodes
       /\ \/ cfg.Nodes[f.NodeID].Restricted
          \/ cfg.Nodes[f.NodeID].CommissionDate = None
          \/ /\ cfg.Nodes[f.NodeID].CommissionDate # None
             /\ f.Timestamp < cfg.Nodes[f.NodeID].CommissionDate[1]

\* the credential check, reading the credential pair of cred and the rules
\* of rules (one and the same snapshot in the engine)
AuthorizedWith(rules, cred, f, username, password, hasAuth) ==
    IF Restricted(rules, f)
    THEN hasAuth /\ username = cred.Username /\ password = cred.Password
    ELSE TRUE

Authorized(cfg, f, username, password, hasAuth) ==
    AuthorizedWith(cfg, cfg, f, username, password, hasAuth)

----------------------------------------------------------------------------
(* http.ResponseWriter                                                     *)

HeaderNames == {"Access-Control-Allow-Origin", "WWW-Authenticate",
                "Content-Disposition", "Content-Length", "Content-Type",
                "Location"}

\* status 0: the header has not been written yet
NoResponse == [status |-> 0, header |-> [h \in HeaderNames |-> None],
               body |-> << >>]

\* w.Header().Set: has no effect on the response once the header is written
SetHeader(w, name, value) ==
    IF w.status # 0 THEN w ELSE [w EXCEPT !.header[name] = Some(value)]

\* w.WriteHeader: only the first call counts
WriteHeader(w, code) ==
    IF w.status # 0 THEN w ELSE [w EXCEPT !.status = code]

\* w.Write: writes the header with 200 when it is still unwritten
Write(w, item) ==
    LET w1 == WriteHeader(w, 200) IN [w1 EXCEPT !.body = Append(@, item)]

\* the handler returned: the server writes the header if nobody did
Finalize(w) == WriteHeader(w, 200)

respondJSON(w, code, value) ==
    Write(WriteHeader(SetHeader(w, "Content-Type", "application/json"), code),
          << "json" >> \o value)

respondJSONError(w, code, msg) ==
    respondJSON(w, code, << "error" >> \o msg)

\* http.Error
httpError(w, text, code) ==
    Write(WriteHeader(SetHeader(w, "Content-Type", "text/plain"), code),
          << "text", text >>)

\* http.Redirect for a GET request
httpRedirect(w, url, code) ==
    Write(WriteHeader(SetHeader(SetHeader(w, "Location", url),
                                "Content-Type", "text/html"), code),
          << "html", url >>)

----------------------------------------------------------------------------
(* Object store backend (S3API)                                            *)

NoError == [aws |-> FALSE, code |-> "", msg |-> ""]

AwsErr(code) == [aws |-> TRUE, code |-> code, msg |-> "backend diagnostic"]

\* what the backend can answer besides success
S3Errors == { AwsErr("NoSuchBucket"), AwsErr("NoSuchKey"), AwsErr("NotFound"),
              AwsErr("AccessDenied"),
              [aws |-> FALSE, code |-> "", msg |-> "context canceled"] }

\* err.Error(), as the sequence of its parts
ErrorText(e) == IF e.aws THEN << e.code, ": ", e.msg >> ELSE << e.msg >>

\* the size, in pieces read by the copy, of the largest object in the bucket
MaxBody == 2

\* the identities of the objects in the bucket, with the size of each
StoredFiles ==
    { << << "j" >>, << "t" >>, << "n" >>, << "3", "-", "x" >>, MaxBody >>,
      << << "j" >>, << "t" >>, << "n" >>, << "1", "-", "x" >>, 1 >>,
      << << "j" >>, << "t" >>, << "r" >>, << "3", "-", "x" >>, MaxBody >>,
      << << "j" >>, << "t", "s" >>, << "n" >>, << "3", "-", "x" >>, 1 >> }

StoredKey(root, o) == JoinSlash((IF root = << >> THEN << >> ELSE << root >>)
                                \o << o[1], o[2], o[3], o[4] >>)

ObjectExists(root, key) == \E o \in StoredFiles : StoredKey(root, o) = key

\* the bytes of the object at key: each byte names its object
ObjectBody(root, key) ==
    LET o == CHOOSE x \in StoredFiles : StoredKey(root, x) = key IN
    [i \in 1..o[5] |-> << "byte", key, i >>]

\* the answers HeadObject and GetObject can give for key: an error, or the
\* object with its length reported or not
S3Outcomes(root, key) ==
    { [err |-> e, Body |-> << >>, ContentLength |-> None] :
        e \in { x \in S3Errors :
                  x.code \in {"NoSuchKey", "NotFound"} => ~ObjectExists(root, key) } }
    \cup
    IF ObjectExists(root, key)
    THEN { [err |-> NoError, Body |-> ObjectBody(root, key), ContentLength |-> l] :
             l \in { None, Some(Len(ObjectBody(root, key))) } }
    ELSE { }

\* req.Presign: the URL names the key; signing can fail
PresignOutcomes(key) ==
    { [err |-> NoError, url |-> << "presigned", key >>],
      [err |-> [aws |-> FALSE, code |-> "", msg |-> "no credentials"], url |-> << >>] }

----------------------------------------------------------------------------
(* Requests the clients send                                               *)

Big == << "9","9","9","9","9","9","9","9","9","9",
          "9","9","9","9","9","9","9","9","9","9", "-", "x" >>

Jobs  == { << >>, << "j" >> }
Tasks == { << >>, << "t" >>, << "t", "s" >>, << "." >> }
Nodes == { << >>, << "n" >>, << "r" >>, << "u" >>, << "k" >>, << ".", "." >> }

Files ==
    { << >>,
      << "x" >>,
      << "a", "-", "x" >>,
      << "-", "1", "-", "x" >>,
      << "+", "3", "-", "x" >>,
      << "1", "-", "x" >>,
      << "2", "-", "x" >>,
      << "3", "-", "x" >>,
      << "9", "-", "x" >>,
      Big,
      << "3", "-", "x", "/", "y" >>,
      << "3", "-", "x", "/", ".", ".", "/", "1", "-", "x" >>,
      << "3", "-", "x", "/", ".", ".", "/", ".", ".", "/", "r", "/", "3", "-", "x" >> }

\* every combination of job, task and node with one good filename, every
\* filename under the well-formed combinations, and the short paths
Paths ==
    { JoinSlash(<< j, t, n, << "3", "-", "x" >> >>) :
        j \in Jobs, t \in Tasks, n \in Nodes }
    \cup
    { JoinSlash(<< << "j" >>, t, n, f >>) :
        t \in { << "t" >>, << "t", "s" >> },
        n \in { << "n" >>, << "r" >>, << "u" >>, << "k" >> },
        f \in Files }
    \cup
    { << >>, << "j" >>, << "j", "/", "t" >>, << "j", "/", "t", "/", "n" >> }

\* r.BasicAuth(): username, password, and whether the header is there
Credentials ==
    { [username |-> "",      password |-> "",        hasAuth |-> FALSE],
      [username |-> "user",  password |-> "secret",  hasAuth |-> TRUE],
      [username |-> "userX", password |-> "secret",  hasAuth |-> TRUE],
      [username |-> "user",  password |-> "secretY", hasAuth |-> TRUE],
      [username |-> "admin", password |-> "hunter",  hasAuth |-> TRUE] }

Methods == {"GET", "HEAD", "OPTIONS", "POST"}

RootFolders == { << >>, << "d" >> }

Revisions == {"A", "B"}

Slots == {1, 2}

----------------------------------------------------------------------------
(* State                                                                   *)

VARIABLES
    revision,      \* which revision of the handler is built
    S3RootFolder,  \* StorageHandler.S3RootFolder
    config,        \* the snapshot the policy engine has published
    published,     \* every snapshot published so far
    reqs           \* per connection: the request being served and its response

vars == << revision, S3RootFolder, config, published, reqs >>

Idle ==
    [pc |-> "idle", method |-> "", path |-> << >>,
     username |-> "", password |-> "", hasAuth |-> FALSE,
     parsed |-> FALSE, sf |-> NoFile, key |-> << >>,
     calls |-> << >>, snap |-> None, used |-> None,
     outcome |-> None, rest |-> << >>, resp |-> NoResponse]

Init ==
    /\ revision \in Revisions
    /\ S3RootFolder \in RootFolders
    /\ config \in Configs
    /\ published = { config }
    /\ reqs = [s \in Slots |-> Idle]

----------------------------------------------------------------------------
(* The handler, as functions from the request's state to its next state    *)

Done(r, w) == [r EXCEPT !.pc = "done", !.resp = Finalize(w)]

ContentDisposition(sf) == << "attachment; filename=", sf.Filename >>

\* handleHEAD and handleGET up to the first call that leaves the process:
\* parse the path, answer 400 when that fails, else build the backend key
handleParse(rev, root, r, next) ==
    LET id == getRequestFileID(rev, r.path) IN
    IF id.err # Nil
    THEN Done(r, respondJSONError(r.resp, 400, << id.err >>))
    ELSE [r EXCEPT !.pc = next, !.parsed = TRUE, !.sf = id.sf,
                   !.key = s3KeyForFileID(root, id.sf)]

\* the slip of putting HEAD behind the authorization check as well
serveHTTPHeadAuth(rev, root, r) ==
    LET w == SetHeader(r.resp, "Access-Control-Allow-Origin", "*")
        r1 == [r EXCEPT !.resp = w]
    IN  CASE r.method = "OPTIONS" -> Done(r1, w)
          [] r.method = "HEAD"    -> handleParse(rev, root, r1, "auth")
          [] r.method = "GET"     -> handleParse(rev, root, r1, "auth")
          [] OTHER                -> Done(r1, httpError(w, "Method Not Allowed", 405))

\* ServeHTTP: the CORS header, then dispatch on the method
serveHTTP(rev, root, r) ==
    LET w == SetHeader(r.resp, "Access-Control-Allow-Origin", "*")
        r1 == [r EXCEPT !.resp = w]
    IN  CASE r.method = "OPTIONS" -> Done(r1, w)
          [] r.method = "HEAD"    -> handleParse(rev, root, r1, "head")
          [] r.method = "GET"     -> handleParse(rev, root, r1, "auth")
          [] OTHER                -> Done(r1, httpError(w, "Method Not Allowed", 405))

\* revision A, handleHEAD after HeadObjectWithContext returned
handleHEADResultA(w, sf, out) ==
    IF out.err # NoError
    THEN IF out.err.aws
         THEN IF out.err.code = "NoSuchBucket"
              THEN respondJSONError(w, 404, << "Bucket not found: " >> \o ErrorText(out.err))
              ELSE IF out.err.code \in {"NoSuchKey", "NotFound"}
              THEN respondJSONError(w, 404, << "File not found: " >> \o ErrorText(out.err))
              ELSE respondJSONError(w, 500,
                     << "Error getting data, HeadObjectWithContext returned: ",
                        out.err.code >>)
         ELSE respondJSONError(w, 500,
                << "Error getting data, HeadObjectWithContext returned: " >>
                \o ErrorText(out.err))
    ELSE LET w1 == IF out.ContentLength # None
                   THEN SetHeader(w, "Content-Length", out.ContentLength[1])
                   ELSE w
         IN  respondJSON(w1, 200, << "HeadObjectOutput", out.ContentLength >>)

\* strings.HasPrefix(err.Error(), "NotFound")
HasPrefixNotFound(e) == Head(ErrorText(e)) = "NotFound"

\* revision B, handleS3Error
handleS3Error(w, e) ==
    IF e.aws /\ e.code \in {"NoSuchBucket", "NoSuchKey"}
    THEN respondJSONError(w, 404, << "not found" >>)
    ELSE IF HasPrefixNotFound(e)
    THEN respondJSONError(w, 404, << "not found" >>)
    ELSE respondJSONError(w, 500,
           << "internal server error with S3 request: " >> \o ErrorText(e))

\* revision B, handleHEAD after HeadObjectWithContext returned
handleHEADResultB(w, sf, out) ==
    IF out.err # NoError
    THEN handleS3Error(w, out.err)
    ELSE LET w1 == SetHeader(w, "Content-Disposition", ContentDisposition(sf)) IN
         IF out.ContentLength # None
         THEN SetHeader(w1, "Content-Length", out.ContentLength[1])
         ELSE w1

handleHEADResult(rev, r, out) ==
    LET r1 == [r EXCEPT !.calls = Append(@, "HeadObject"), !.outcome = Some(out)] IN
    Done(r1, IF rev = "A" THEN handleHEADResultA(r.resp, r.sf, out)
                          ELSE handleHEADResultB(r.resp, r.sf, out))

\* the snapshot the rules, and the credential pair, are read from: the one
\* the evaluation loaded, whatever has been published since
RulesSource(loaded, live) == loaded

\* the slip of reading the published snapshot again for the credential pair
CredentialSourceLive(loaded, live) == live

CredentialSource(loaded, live) == loaded

\* the slip of a missing return after the 401
handleAuthResultNoReturn(r, ok) ==
    IF ok THEN [r EXCEPT !.pc = "s3"]
    ELSE [r EXCEPT !.pc = "s3",
                   !.resp = respondJSONError(
                              SetHeader(r.resp, "WWW-Authenticate",
                                        "Basic domain=storage.sagecontinuum.org"),
                              401, << "not authorized" >>)]

\* handleGET / handleAuth after Authorized returned
handleAuthResult(r, ok) ==
    IF ok THEN [r EXCEPT !.pc = "s3"]
    ELSE Done(r, respondJSONError(
                   SetHeader(r.resp, "WWW-Authenticate",
                             "Basic domain=storage.sagecontinuum.org"),
                   401, << "not authorized" >>))

\* revision A, handleGET after GetObjectWithContext returned: an error is
\* answered with 500, else the header goes out and the copy starts
handleGETResultA(r, out) ==
    LET r1 == [r EXCEPT !.calls = Append(@, "GetObject"), !.outcome = Some(out)] IN
    IF out.err # NoError
    THEN Done(r1, respondJSONError(r.resp, 500,
                    << "Error getting data, GetObject returned: " >>
                    \o ErrorText(out.err)))
    ELSE LET w1 == SetHeader(r.resp, "Content-Disposition", ContentDisposition(r.sf))
             w2 == IF out.ContentLength # None
                   THEN SetHeader(w1, "Content-Length", out.ContentLength[1])
                   ELSE w1
             w3 == WriteHeader(w2, 200)
         IN  IF out.Body = << >>
             THEN Done(r1, w3)
             ELSE [r1 EXCEPT !.pc = "copy", !.rest = out.Body, !.resp = w3]

\* revision B, handleGET after Presign returned
handleGETResultB(r, out) ==
    LET r1 == [r EXCEPT !.calls = Append(@, "Presign"), !.outcome = Some(out)] IN
    IF out.err # NoError
    THEN Done(r1, httpError(r.resp, << "error getting presigned url: " >>
                                    \o ErrorText(out.err), 500))
    ELSE Done(r1, httpRedirect(
                    SetHeader(r.resp, "Content-Disposition", ContentDisposition(r.sf)),
                    out.url, 307))

\* the slip of taking one read for the whole body
copyStepOnce(r) ==
    LET r1 == [r EXCEPT !.resp = Write(@, Head(r.rest)), !.rest = << >>] IN
    Done(r1, r1.resp)

\* io.Copy moves one more piece of the body to the client
copyStep(r) ==
    LET r1 == [r EXCEPT !.resp = Write(@, Head(r.rest)), !.rest = Tail(@)] IN
    IF r1.rest = << >> THEN Done(r1, r1.resp) ELSE r1

\* io.Copy returned an error
copyError(r) ==
    Done(r, respondJSONError(r.resp, 500,
              << "Error getting data: ", "copy failed" >>))

----------------------------------------------------------------------------
(* Actions                                                                 *)

others == << revision, S3RootFolder, config, published >>

\* a request arrives on connection s
ServeHTTPFrom(s, methods, paths, creds) ==
    /\ reqs[s].pc = "idle"
    /\ \E m \in methods, p \in paths, c \in creds :
          reqs' = [reqs EXCEPT ![s] =
                     serveHTTP(revision, S3RootFolder,
                               [Idle EXCEPT !.method = m, !.path = p,
                                            !.username = c.username,
                                            !.password = c.password,
                                            !.hasAuth = c.hasAuth])]
    /\ UNCHANGED others

ServeHTTP(s) == ServeHTTPFrom(s, Methods, Paths, Credentials)

\* HEAD: the backend answers the metadata request
HeadObject(s) ==
    /\ reqs[s].pc = "head"
    /\ \E out \in S3Outcomes(S3RootFolder, reqs[s].key) :
          reqs' = [reqs EXCEPT ![s] = handleHEADResult(revision, reqs[s], out)]
    /\ UNCHANGED others

\* GET: Authorized loads the published snapshot
AuthorizedLoad(s) ==
    /\ reqs[s].pc = "auth"
    /\ reqs' = [reqs EXCEPT ![s].pc = "decide",
                            ![s].calls = Append(@, "Authorized"),
                            ![s].snap = Some(config)]
    /\ UNCHANGED others

\* the slip of handing password and username over in the wrong order
AuthorizedDecideSwapped(s) ==
    /\ reqs[s].pc = "decide"
    /\ LET r     == reqs[s]
           rules == RulesSource(r.snap[1], config)
           cred  == CredentialSource(r.snap[1], config)
           ok    == AuthorizedWith(rules, cred, r.sf, r.password, r.username, r.hasAuth)
       IN  reqs' = [reqs EXCEPT ![s] =
                      handleAuthResult([r EXCEPT !.used = Some(<< rules, cred >>)], ok)]
    /\ UNCHANGED others

\* GET: Authorized decides, and the handler answers 401 or goes on
AuthorizedDecide(s) ==
    /\ reqs[s].pc = "decide"
    /\ LET r     == reqs[s]
           rules == RulesSource(r.snap[1], config)
           cred  == CredentialSource(r.snap[1], config)
           ok    == AuthorizedWith(rules, cred, r.sf, r.username, r.password, r.hasAuth)
       IN  reqs' = [reqs EXCEPT ![s] =
                      handleAuthResult([r EXCEPT !.used = Some(<< rules, cred >>)], ok)]
    /\ UNCHANGED others

\* GET, revision A: the backend answers the object request
GetObject(s) ==
    /\ reqs[s].pc = "s3"
    /\ revision = "A"
    /\ \E out \in S3Outcomes(S3RootFolder, reqs[s].key) :
          reqs' = [reqs EXCEPT ![s] = handleGETResultA(reqs[s], out)]
    /\ UNCHANGED others

\* GET, revision B: the request is presigned
Presign(s) ==
    /\ reqs[s].pc = "s3"
    /\ revision = "B"
    /\ \E out \in PresignOutcomes(reqs[s].key) :
          reqs' = [reqs EXCEPT ![s] = handleGETResultB(reqs[s], out)]
    /\ UNCHANGED others

Copy(s) ==
    /\ reqs[s].pc = "copy"
    /\ reqs' = [reqs EXCEPT ![s] = copyStep(reqs[s])]
    /\ UNCHANGED others

CopyFail(s) ==
    /\ reqs[s].pc = "copy"
    /\ reqs' = [reqs EXCEPT ![s] = copyError(reqs[s])]
    /\ UNCHANGED others

\* the response is complete and the connection takes the next request
Finish(s) ==
    /\ reqs[s].pc = "done"
    /\ reqs' = [reqs EXCEPT ![s] = Idle]
    /\ UNCHANGED others

\* UpdateConfig publishes a whole new snapshot in one step
UpdateConfig(c) ==
    /\ c # config
    /\ config' = c
    /\ published' = published \cup { c }
    /\ UNCHANGED << revision, S3RootFolder, reqs >>

Next ==
    \/ ServeHTTP(1)
    \/ HeadObject(1)
    \/ AuthorizedLoad(1)
    \/ AuthorizedDecide(1)
    \/ GetObject(1)
    \/ Presign(1)
    \/ Copy(1)
    \/ CopyFail(1)
    \/ Finish(1)
    \/ \E c \in Configs : UpdateConfig(c)

Spec == Init /\ [][Next]_vars

\* two connections served at once, with a few requests each
PairPaths ==
    { JoinSlash(<< << "j" >>, << "t" >>, n, << "3", "-", "x" >> >>) :
        n \in { << "n" >>, << "r" >>, << "k" >> } }
    \cup { << "j", "/", "t", "/", "n" >> }

PairCredentials == { c \in Credentials : c.username \in {"", "user"} }

ServeHTTPPair(s) == ServeHTTPFrom(s, {"GET", "HEAD"}, PairPaths, PairCredentials)

NextPair ==
    \E s \in Slots :
        \/ ServeHTTPPair(s)
        \/ HeadObject(s)
        \/ AuthorizedLoad(s)
        \/ AuthorizedDecide(s)
        \/ GetObject(s)
        \/ Presign(s)
        \/ Copy(s)
        \/ CopyFail(s)
        \/ Finish(s)

InitPair ==
    /\ Init
    /\ config = Config1

SpecPair == InitPair /\ [][NextPair]_vars

----------------------------------------------------------------------------
(* Properties                                                              *)

\* the policy engine has decided on the request of connection s
Decided(s) == reqs[s].method = "GET" /\ reqs[s].used # None

\* ... and the answer was no
Denied(s) == Decided(s) /\ reqs[s].pc = "done" /\ reqs[s].resp.status = 401

\* the handler of connection s has called the backend
ReachedBackend(s) ==
    \E i \in 1..Len(reqs[s].calls) :
        reqs[s].calls[i] \in {"HeadObject", "GetObject", "Presign"}

\* C1: a file identity is restricted under a policy snapshot exactly when
\* its task contains a restricted-task substring, or its node is not in the
\* node map, or the node is flagged restricted, or the node has no
\* commission date, or the file's timestamp is strictly before the
\* commission date. Seen on requests without credentials: they are denied
\* exactly in these cases, so a timestamp at or after the commission date
\* on an unrestricted, commissioned node with another task is public.
C1_RestrictedIff ==
    \A s \in Slots :
        (Decided(s) /\ ~reqs[s].hasAuth) =>
            LET cfg  == reqs[s].snap[1]
                f    == reqs[s].sf
                subs == cfg.RestrictedTasksSubstrings
                known == f.NodeID \in DOMAIN cfg.Nodes
            IN  Denied(s) <=>
                  \/ \E i \in 1..Len(subs) : Contains(f.TaskID, subs[i])
                  \/ ~known
                  \/ known /\ cfg.Nodes[f.NodeID].Restricted
                  \/ known /\ cfg.Nodes[f.NodeID].CommissionDate = None
                  \/ known /\ cfg.Nodes[f.NodeID].CommissionDate # None
                           /\ f.Timestamp < cfg.Nodes[f.NodeID].CommissionDate[1]

\* a request without credentials for a file stamped exactly at the
\* commission date of an unrestricted node was let through
C1_Witness ==
    \E s \in Slots :
        /\ Decided(s) /\ ~reqs[s].hasAuth /\ ~Denied(s)
        /\ reqs[s].sf.NodeID \in DOMAIN reqs[s].snap[1].Nodes
        /\ reqs[s].snap[1].Nodes[reqs[s].sf.NodeID].CommissionDate
             = Some(reqs[s].sf.Timestamp)

\* C2: on a restricted file, access is granted exactly when credentials are
\* supplied and username and password both equal the configured pair.
C2_RestrictedNeedsCredentials ==
    \A s \in Slots :
        (Decided(s) /\ Restricted(reqs[s].snap[1], reqs[s].sf)) =>
            (~Denied(s) <=> /\ reqs[s].hasAuth
                            /\ reqs[s].username = reqs[s].snap[1].Username
                            /\ reqs[s].password = reqs[s].snap[1].Password)

\* a restricted file was refused to the right password under a wrong
\* username
C2_Witness ==
    \E s \in Slots :
        /\ Denied(s) /\ Restricted(reqs[s].snap[1], reqs[s].sf)
        /\ reqs[s].hasAuth
        /\ reqs[s].username # reqs[s].snap[1].Username
        /\ reqs[s].password = reqs[s].snap[1].Password

\* C3: a GET whose path parses and which the policy engine does not
\* authorize is answered 401 with a Basic challenge and the JSON error
\* "not authorized", and never reaches the backend; no GET reaches the
\* backend before the engine has authorized it.
C3_UnauthorizedGet ==
    \A s \in Slots :
        LET r == reqs[s] IN
        /\ ( /\ Decided(s)
             /\ ~AuthorizedWith(r.used[1][1], r.used[1][2], r.sf,
                                r.username, r.password, r.hasAuth) ) =>
              /\ r.pc = "done"
              /\ r.resp.status = 401
              /\ r.resp.header["WWW-Authenticate"]
                   = Some("Basic domain=storage.sagecontinuum.org")
              /\ r.resp.body = << << "json", "error", "not authorized" >> >>
              /\ ~ReachedBackend(s)
        /\ (r.method = "GET" /\ ReachedBackend(s)) =>
              /\ r.parsed
              /\ r.calls[1] = "Authorized"
              /\ Decided(s)
              /\ AuthorizedWith(r.used[1][1], r.used[1][2], r.sf,
                                r.username, r.password, r.hasAuth)
              /\ r.resp.status # 401

\* a GET was refused
C3_Witness == \E s \in Slots : Denied(s) /\ reqs[s].parsed

\* C4: HEAD never consults the policy engine. Whatever the node, a HEAD
\* request never loads a snapshot and is never answered 401, and two HEAD
\* requests for the same well-formed path that get the same backend answer
\* get the same response, with or without credentials.
C4_HeadIgnoresPolicy ==
    /\ \A s \in Slots :
          reqs[s].method = "HEAD" =>
              /\ reqs[s].snap = None
              /\ reqs[s].used = None
              /\ \A i \in 1..Len(reqs[s].calls) : reqs[s].calls[i] = "HeadObject"
              /\ reqs[s].resp.status # 401
    /\ \A s, t \in Slots :
          ( /\ reqs[s].method = "HEAD" /\ reqs[t].method = "HEAD"
            /\ reqs[s].pc = "done" /\ reqs[t].pc = "done"
            /\ reqs[s].parsed
            /\ reqs[s].path = reqs[t].path
            /\ reqs[s].outcome = reqs[t].outcome ) =>
              reqs[s].resp = reqs[t].resp

\* the metadata of a file on a node that is restricted, or unknown, was
\* answered alike to a client with credentials and to one without
C4_Witness ==
    /\ reqs[1].method = "HEAD" /\ reqs[2].method = "HEAD"
    /\ reqs[1].pc = "done" /\ reqs[2].pc = "done"
    /\ reqs[1].parsed
    /\ Restricted(config, reqs[1].sf)
    /\ reqs[1].path = reqs[2].path
    /\ reqs[1].outcome = reqs[2].outcome
    /\ reqs[1].hasAuth /\ ~reqs[2].hasAuth
    /\ reqs[1].resp = reqs[2].resp
    /\ reqs[1].resp.status = 200

\* C5: every evaluation decides against one published snapshot: rules and
\* credential pair both come from the snapshot it loaded, whatever is
\* published meanwhile, and a publication never disables an evaluation
\* that is under way.
C5_OneSnapshot ==
    \A s \in Slots :
        /\ reqs[s].snap # None => reqs[s].snap[1] \in published
        /\ Decided(s) =>
              /\ reqs[s].used[1] = << reqs[s].snap[1], reqs[s].snap[1] >>
              /\ ~Denied(s) <=> Authorized(reqs[s].snap[1], reqs[s].sf,
                                           reqs[s].username, reqs[s].password,
                                           reqs[s].hasAuth)
        /\ reqs[s].pc = "decide" => ENABLED AuthorizedDecide(s)

\* an evaluation granted access under the snapshot it had loaded while the
\* published snapshot is another one, which would have refused
C5_Witness ==
    \E s \in Slots :
        /\ Decided(s)
        /\ reqs[s].snap[1] # config
        /\ reqs[s].pc = "s3"
        /\ ~Authorized(config, reqs[s].sf, reqs[s].username, reqs[s].password,
                       reqs[s].hasAuth)

\* the GET of connection s is answered, and was authorized
AuthorizedGetDone(s) ==
    /\ Decided(s) /\ reqs[s].pc = "done" /\ ~Denied(s)

Numeric(p) ==
    LET d == IF Len(p) > 0 /\ p[1] \in {"+", "-"} THEN Tail(p) ELSE p IN
    Len(d) > 0 /\ \A i \in 1..Len(d) : d[i] \in Digits

\* the four segments of a path: job, task, node and the remainder
Segments(path) == SplitN(path, "/", 4)

\* the part of a filename before its first dash
TimestampPrefix(f) == SubSeq(f, 1, IndexOf(f, "-") - 1)

Malformed(path) ==
    LET segs == Segments(path) IN
    \/ Len(segs) # 4
    \/ \E i \in 1..Len(segs) : segs[i] = << >>
    \/ Len(segs) = 4 /\ IndexOf(segs[4], "-") = 0
    \/ Len(segs) = 4 /\ IndexOf(segs[4], "-") # 0 /\ ~Numeric(TimestampPrefix(segs[4]))

\* C7 as claimed: a malformed path (other than four segments, an empty job,
\* task, node or filename, a filename without dash, a non-numeric timestamp
\* prefix) fails to parse, and GET and HEAD answer 400 without evaluating
\* authorization or calling the backend.
C7_Claimed ==
    \A s \in Slots :
        (reqs[s].method \in {"GET", "HEAD"} /\ Malformed(reqs[s].path)) =>
            /\ ~reqs[s].parsed
            /\ reqs[s].pc = "done"
            /\ reqs[s].resp.status = 400
            /\ reqs[s].calls = << >>
            /\ reqs[s].snap = None

WellFormed(path) ==
    LET segs == Segments(path) IN
    /\ Len(segs) = 4
    /\ \A i \in 1..4 : segs[i] # << >>
    /\ IndexOf(segs[4], "-") # 0
    /\ Numeric(TimestampPrefix(segs[4]))

\* C8 as claimed: every path of four non-empty segments whose fourth is
\* <int>-<name>, for any signed decimal integer, parses, and with an empty
\* root folder its backend key is the path itself.
C8_Claimed ==
    \A s \in Slots :
        (reqs[s].method \in {"GET", "HEAD"} /\ WellFormed(reqs[s].path)) =>
            /\ reqs[s].parsed
            /\ S3RootFolder = << >> => reqs[s].key = reqs[s].path

\* a well-formed path of plain names: no "." or ".." for job, task or node
\* and no "/" in the filename
Plain(path) ==
    /\ WellFormed(path)
    /\ \A i \in 1..3 : Segments(path)[i] \notin { << "." >>, << ".", "." >> }
    /\ IndexOf(Segments(path)[4], "/") = 0

NotFoundError(e) == e.aws /\ e.code \in {"NoSuchBucket", "NoSuchKey", "NotFound"}

\* the object store answered the request of connection s
S3Answered(s) ==
    /\ reqs[s].pc = "done"
    /\ \E i \in 1..Len(reqs[s].calls) : reqs[s].calls[i] \in {"HeadObject", "GetObject"}

\* C9 as claimed: for HEAD and GET alike, a backend answer "no such bucket"
\* or "no such key" gives 404 and any other backend failure gives 500 or 502
\* with the backend's diagnostic in the body; a GET for a public file that
\* the backend does not hold gives 404. Stated for the requests with a
\* plain path, where it fails already.
C9_Claimed ==
    \A s \in Slots :
        LET r == reqs[s] IN
        /\ (S3Answered(s) /\ Plain(r.path)) =>
              LET e == r.outcome[1].err IN
              /\ NotFoundError(e) => r.resp.status = 404
              /\ (e # NoError /\ ~NotFoundError(e)) =>
                    /\ r.resp.status \in {500, 502}
                    /\ \E i \in 1..Len(r.resp.body) :
                          \E k \in 1..Len(r.resp.body[i]) :
                              r.resp.body[i][k] \in {e.code, e.msg} \ {""}
        /\ ( /\ AuthorizedGetDone(s)
             /\ Plain(r.path)
             /\ ~Restricted(r.snap[1], r.sf)
             /\ ~ObjectExists(S3RootFolder, r.key)
             /\ r.outcome[1].err = NoError \/ NotFoundError(r.outcome[1].err) ) =>
              r.resp.status = 404

\* C10 as claimed: the key of every GET that reaches the backend is the
\* plain join rootFolder/job/task/node/filename of the identity the policy
\* engine evaluated: it lies under the root folder and its task and node
\* components are the identity's task and node, whatever the fourth segment
\* contains. Stated for the requests whose job, task and node are plain
\* names, where it fails already.
C10_Claimed ==
    \A s \in Slots :
        ( /\ reqs[s].method = "GET" /\ ReachedBackend(s)
          /\ \A i \in 1..3 :
                Segments(reqs[s].path)[i] \notin { << >>, << "." >>, << ".", "." >> } ) =>
            LET r     == reqs[s]
                off   == IF S3RootFolder = << >> THEN 0 ELSE 1
                comps == Split(r.key, "/")
            IN  /\ r.key = JoinSlash((IF off = 0 THEN << >> ELSE << S3RootFolder >>)
                             \o << r.sf.JobID, r.sf.TaskID, r.sf.NodeID, r.sf.Filename >>)
                /\ Len(comps) >= off + 4
                /\ off = 1 => comps[1] = S3RootFolder
                /\ comps[off + 2] = r.sf.TaskID
                /\ comps[off + 3] = r.sf.NodeID

\* the body of response w holds a JSON error
HasJSONError(w) ==
    \E i \in 1..Len(w.body) : w.body[i][1] = "json" /\ w.body[i][2] = "error"

\* C11 as claimed: a request gets exactly one response status, and once a
\* GET has sent 200 and started to stream the object, no error status and
\* no JSON error body is written for it any more, even when the copy fails
\* part-way.
C11_Claimed ==
    [][ \A s \in Slots :
          (reqs[s].resp.status # 0 /\ reqs'[s].pc # "idle") =>
              /\ reqs'[s].resp.status = reqs[s].resp.status
              /\ (reqs[s].method = "GET" /\ reqs[s].pc = "copy") =>
                    ~HasJSONError(reqs'[s].resp) ]_vars

====
